---- MODULE Spec2Model ----
(***************************************************************************)
(* rust-dnf: repository metadata acquisition and parsing.                  *)
(*                                                                         *)
(* Strings of the program are TLA+ strings.  A document is modelled by the *)
(* sequence of events the quick_xml tokenizer delivers for it (the         *)
(* tokenizer is a library, not code of this repository); Eof is the end of *)
(* the sequence.                                                           *)
(***************************************************************************)
EXTENDS Integers, Sequences, FiniteSets, TLC

(***************************************************************************)
(* Bounds of the model.                                                    *)
(***************************************************************************)
\* number of <data> entries of a generated index document
MaxEntries == 2
\* number of <package> blocks of a generated primary document
MaxBlocks == 2
\* number of configured repositories
MaxRepos == 2
\* number of characters of a generated version text
MaxLen == 5

(***************************************************************************)
(* Option and Result values.                                               *)
(***************************************************************************)
\* Option<String>::None for an attribute that is absent
NoAttr == "<none>"
\* an attribute whose syntax makes try_get_attribute return Err
BadAttr == "<malformed>"

EmptyMap == [x \in {} |-> x]

Put(m, k, v) == [x \in (DOMAIN m) \cup {k} |-> IF x = k THEN v ELSE m[x]]

(***************************************************************************)
(* package.rs                                                              *)
(***************************************************************************)
\* PackageName::new: Err(InvalidName) on the empty name
PackageNameNew(name, arch) ==
  IF name = "" THEN [ok |-> FALSE, val |-> [name |-> name, arch |-> arch]]
  ELSE [ok |-> TRUE, val |-> [name |-> name, arch |-> arch]]

\* Version::new: Err(InvalidVersion) on the empty version
VersionNew(epoch, version, release) ==
  IF version = ""
  THEN [ok |-> FALSE, val |-> [epoch |-> epoch, version |-> version, release |-> release]]
  ELSE [ok |-> TRUE, val |-> [epoch |-> epoch, version |-> version, release |-> release]]

\* The text of a version element as the sequence of its characters (what
\* str::split('-') scans).
Pieces(s) == [i \in 1..Len(s) |-> SubSeq(s, i, i)]

RECURSIVE SplitFrom(_, _, _)
\* str::split('-'): the parts between separators, empty parts included
SplitFrom(ps, i, acc) ==
  IF i > Len(ps) THEN <<acc>>
  ELSE IF ps[i] = "-" THEN <<acc>> \o SplitFrom(ps, i + 1, "")
  ELSE SplitFrom(ps, i + 1, acc \o ps[i])

SplitDash(s) == SplitFrom(Pieces(s), 1, "")

\* Version::parse: never fails; parts[0] and parts[1] when there are two or more
VersionParse(s) ==
  LET parts == SplitDash(s) IN
  IF Len(parts) >= 2
  THEN [epoch |-> 0, version |-> parts[1], release |-> parts[2]]
  ELSE [epoch |-> 0, version |-> s, release |-> "1"]

\* Package::new: summary starts empty (the list fields, size, license and url
\* are never written by the code modelled here and are left out)
PackageNew(name, version, description) ==
  [name |-> name, version |-> version, description |-> description, summary |-> ""]

(***************************************************************************)
(* Tokenizer events.                                                       *)
(***************************************************************************)
EvStart(n, type, href) == [k |-> "Start", name |-> n, type |-> type, href |-> href, text |-> ""]
EvEmpty(n, type, href) == [k |-> "Empty", name |-> n, type |-> type, href |-> href, text |-> ""]
EvEnd(n) == [k |-> "End", name |-> n, type |-> NoAttr, href |-> NoAttr, text |-> ""]
EvText(t) == [k |-> "Text", name |-> "", type |-> NoAttr, href |-> NoAttr, text |-> t]
\* a text token whose unescape() fails (an unknown entity reference)
EvBadText == [k |-> "BadText", name |-> "", type |-> NoAttr, href |-> NoAttr, text |-> ""]
\* read_event_into returns Err for a malformed tag (a mismatched end tag)
EvErr == [k |-> "Err", name |-> "", type |-> NoAttr, href |-> NoAttr, text |-> ""]

(***************************************************************************)
(* repo.rs: parse_repomd (the Metadata Locator).                           *)
(***************************************************************************)
\* the locals of parse_repomd before the loop
RepomdInit == [in_data |-> FALSE, data_type |-> "", location |-> "", ret |-> "run", href |-> ""]

\* a location arm that forgets the data_type test
LocationArmAnyType(st, e) == e.k = "Start" /\ e.name = "location" /\ st.in_data

\* the guard of the match arm b"location"
LocationArm(st, e) ==
  e.k = "Start" /\ e.name = "location" /\ st.in_data /\ st.data_type = "primary"

\* One iteration of the loop of parse_repomd on event e.
\* ret: "run" (loop on), "ok" (return Ok(location)), "err" (break, or `?`).
RepomdStep(st, e) ==
  CASE e.k = "Start" /\ e.name = "data" ->
         IF e.type = BadAttr THEN [st EXCEPT !.in_data = TRUE, !.ret = "err"]
         ELSE IF e.type # NoAttr THEN [st EXCEPT !.in_data = TRUE, !.data_type = e.type]
         ELSE [st EXCEPT !.in_data = TRUE]
    [] LocationArm(st, e) ->
         IF e.href = BadAttr THEN [st EXCEPT !.ret = "err"]
         ELSE IF e.href # NoAttr THEN [st EXCEPT !.location = e.href]
         ELSE st
    [] e.k = "End" /\ e.name = "data" ->
         IF st.location # ""
         THEN [st EXCEPT !.in_data = FALSE, !.ret = "ok", !.href = st.location]
         ELSE [st EXCEPT !.in_data = FALSE]
    [] e.k = "Err" -> [st EXCEPT !.ret = "err"]
    [] OTHER -> st

RECURSIVE RepomdLoop(_, _, _)
RepomdLoop(st, evs, i) ==
  IF st.ret # "run" THEN st
  ELSE IF i > Len(evs) THEN [st EXCEPT !.ret = "err"]
  ELSE RepomdLoop(RepomdStep(st, evs[i]), evs, i + 1)

\* parse_repomd on a file: read_to_string fails unless the file is text
ParseRepomd(body) ==
  IF body.fmt # "plain" THEN [ok |-> FALSE, href |-> ""]
  ELSE LET st == RepomdLoop(RepomdInit, body.events, 1) IN
       [ok |-> st.ret = "ok", href |-> st.href]

(***************************************************************************)
(* repo.rs: parse_primary_xml (the Primary Parser).                        *)
(***************************************************************************)
\* the record a <package> start tag creates
FreshPackage ==
  PackageNew(PackageNameNew("unknown", "x86_64").val, VersionNew(0, "0", "0").val, "")

\* arm "name" of the end-tag match
OnNameEnd(pkg, text, repoName) ==
  LET r == PackageNameNew(text, repoName) IN
  [panic |-> ~r.ok, pkg |-> [pkg EXCEPT !.name = r.val]]

\* a package arm that keeps the entry a name already has
OnPackageEndFirstWins(pkgs, pkg) ==
  IF pkg.name.name # "unknown" /\ pkg.name.name \notin DOMAIN pkgs
  THEN Put(pkgs, pkg.name.name, pkg)
  ELSE pkgs

\* a package arm that inserts the placeholder record too
OnPackageEndAnyName(pkgs, pkg) == Put(pkgs, pkg.name.name, pkg)

\* arm "package" of the end-tag match: the set after the block ends
OnPackageEnd(pkgs, pkg) ==
  IF pkg.name.name # "unknown" THEN Put(pkgs, pkg.name.name, pkg) ELSE pkgs

\* the `if tag == "version"` block after the match
OnVersionEnd(pkg, text) == [pkg EXCEPT !.version = VersionParse(text)]

\* One iteration of the loop of parse_primary_xml.  cur is the Option
\* current_package: << >> for None, <<pkg>> for Some(pkg).
\* ret: "run", "ok" (Eof), "err" (`?` on unescape), "panic" (unwrap on Err).
PrimaryStep(st, e, repoName) ==
  CASE e.k = "Start" ->
         IF e.name = "package"
         THEN [st EXCEPT !.text = "", !.cur = <<FreshPackage>>]
         ELSE [st EXCEPT !.text = ""]
    [] e.k = "Text" -> [st EXCEPT !.text = st.text \o e.text]
    [] e.k = "BadText" -> [st EXCEPT !.ret = "err"]
    [] e.k = "End" /\ st.cur # << >> ->
         LET pkg == st.cur[1] IN
         CASE e.name = "name" ->
                LET r == OnNameEnd(pkg, st.text, repoName) IN
                IF r.panic THEN [st EXCEPT !.ret = "panic"]
                ELSE [st EXCEPT !.cur = <<r.pkg>>]
           [] e.name = "arch" -> [st EXCEPT !.cur = <<[pkg EXCEPT !.name.arch = st.text]>>]
           [] e.name = "version" -> [st EXCEPT !.cur = <<OnVersionEnd(pkg, st.text)>>]
           [] e.name = "summary" -> [st EXCEPT !.cur = <<[pkg EXCEPT !.summary = st.text]>>]
           [] e.name = "description" ->
                [st EXCEPT !.cur = <<[pkg EXCEPT !.description = st.text]>>]
           [] e.name = "package" ->
                [st EXCEPT !.pkgs = OnPackageEnd(st.pkgs, pkg), !.cur = << >>]
           [] OTHER -> st
    [] OTHER -> st

RECURSIVE PrimaryLoop(_, _, _, _)
PrimaryLoop(st, evs, i, repoName) ==
  IF st.ret # "run" THEN st
  ELSE IF i > Len(evs) THEN [st EXCEPT !.ret = "ok"]
  ELSE PrimaryLoop(PrimaryStep(st, evs[i], repoName), evs, i + 1, repoName)

\* parse_primary_xml on a file with extension gz, into the package set pkgs:
\* the GzDecoder fails unless the file is a gzip stream of text
ParsePrimaryXml(pkgs, body, repoName) ==
  IF body.fmt # "gzip" THEN [ret |-> "err", pkgs |-> pkgs]
  ELSE LET st == PrimaryLoop([pkgs |-> pkgs, cur |-> << >>, text |-> "", ret |-> "run"],
                             body.events, 1, repoName) IN
       [ret |-> st.ret, pkgs |-> st.pkgs]

\* load_mock_data: the seven built-in packages
MockPackages ==
  << PackageNew(PackageNameNew("nano", "x86_64").val, VersionNew(0, "2.9.8", "1.fc39").val,
                "A small text editor for consoles"),
     PackageNew(PackageNameNew("vim", "x86_64").val, VersionNew(0, "8.2", "1.fc39").val,
                "Vi Improved - enhanced vi editor"),
     PackageNew(PackageNameNew("curl", "x86_64").val, VersionNew(0, "7.61.1", "1.fc39").val,
                "Tool for transferring data with URL syntax"),
     PackageNew(PackageNameNew("rust", "x86_64").val, VersionNew(0, "1.70.0", "1.fc39").val,
                "The Rust programming language"),
     PackageNew(PackageNameNew("firefox", "x86_64").val, VersionNew(0, "115.0", "1.fc39").val,
                "Mozilla Firefox Web browser"),
     PackageNew(PackageNameNew("git", "x86_64").val, VersionNew(0, "2.43.0", "1.fc39").val,
                "Fast Version Control System"),
     PackageNew(PackageNameNew("python3", "x86_64").val, VersionNew(0, "3.11.5", "1.fc39").val,
                "Python programming language") >>

RECURSIVE InsertAll(_, _, _)
InsertAll(pkgs, list, i) ==
  IF i > Len(list) THEN pkgs
  ELSE InsertAll(Put(pkgs, list[i].name.name, list[i]), list, i + 1)

\* load_mock_data: inserts every mock package into the set as it stands
LoadMockData(pkgs) == InsertAll(pkgs, MockPackages, 1)

(***************************************************************************)
(* Documents a server can return.                                          *)
(***************************************************************************)
\* a leaf element that a block does not contain
Absent == "<absent>"

\* the first MaxRepos names of the default configuration
RepoNames == SubSeq(<<"fedora", "updates", "fedora-modular">>, 1, MaxRepos)

RECURSIVE SeqsUpTo(_, _)
\* the sequences over S of length at most n
SeqsUpTo(S, n) ==
  IF n = 0 THEN {<< >>}
  ELSE LET shorter == SeqsUpTo(S, n - 1) IN
       shorter \cup {Append(q, x) : q \in {r \in shorter : Len(r) = n - 1}, x \in S}

RECURSIVE Concat(_, _)
Concat(f, i) == IF i > Len(f) THEN << >> ELSE f[i] \o Concat(f, i + 1)

\* One <data> entry of an index document: its type attribute, the form its
\* nested <location> is written in ("pair": <location ..></location>,
\* "empty": <location ../>, "none": no location), and the href.
Entries ==
  [type : {"primary", "other", NoAttr, BadAttr}, form : {"pair", "empty"},
   href : {"repodata/primary.xml.gz", "repodata/other.xml.gz"}]
  \cup [type : {"primary", "other", NoAttr, BadAttr}, form : {"none"}, href : {NoAttr}]

EntryEvents(en) ==
  <<EvStart("data", en.type, NoAttr)>>
  \o (CASE en.form = "pair" -> <<EvStart("location", NoAttr, en.href), EvEnd("location")>>
        [] en.form = "empty" -> <<EvEmpty("location", NoAttr, en.href)>>
        [] OTHER -> << >>)
  \o <<EvEnd("data")>>

\* the events of <repomd> entries </repomd>
RepomdEvents(ens) ==
  <<EvStart("repomd", NoAttr, NoAttr)>>
  \o Concat([i \in 1..Len(ens) |-> EntryEvents(ens[i])], 1)
  \o <<EvEnd("repomd")>>

\* One <package> block of a primary document: the text of each leaf element
\* (Absent: no such element) and whether <arch> is written before <name>.
Blocks ==
  { b \in [name : {Absent, "vim", "zsh", "unknown", ""}, arch : {Absent, "noarch"},
           version : {Absent, "1.0-2"}, summary : {Absent, "editor"},
           archFirst : BOOLEAN] :
      b.archFirst => (b.name # Absent /\ b.arch # Absent) }

\* trim_text(true): an element with no text delivers no Text event
Leaf(tag, text) ==
  IF text = Absent THEN << >>
  ELSE IF text = "" THEN <<EvStart(tag, NoAttr, NoAttr), EvEnd(tag)>>
  ELSE <<EvStart(tag, NoAttr, NoAttr), EvText(text), EvEnd(tag)>>

BlockEvents(b) ==
  <<EvStart("package", NoAttr, NoAttr)>>
  \o (IF b.archFirst THEN Leaf("arch", b.arch) \o Leaf("name", b.name)
      ELSE Leaf("name", b.name) \o Leaf("arch", b.arch))
  \o Leaf("version", b.version)
  \o Leaf("summary", b.summary)
  \o <<EvEnd("package")>>

\* the blocks with a <name> element at most
NameOnlyBlocks ==
  {b \in Blocks : b.arch = Absent /\ b.version = Absent /\ b.summary = Absent}

\* A primary document: its blocks and one optional fault after the first
\* `at` blocks ("badescape": a text token with an unknown entity,
\* "mismatch": a malformed tag the tokenizer reports and skips).  The
\* documents with a fault are those of blocks with a <name> element at most.
PrimaryDocs(n) ==
  [blocks : SeqsUpTo(Blocks, n), fault : {"none"}, at : {0}]
  \cup { d \in [blocks : SeqsUpTo(NameOnlyBlocks, n), fault : {"badescape", "mismatch"},
                 at : 0..n] : d.at <= Len(d.blocks) }

FaultEvents(f) ==
  CASE f = "badescape" -> <<EvBadText>>
    [] f = "mismatch" -> <<EvErr>>
    [] OTHER -> << >>

\* the events of <metadata> blocks </metadata>
PrimaryEvents(d) ==
  <<EvStart("metadata", NoAttr, NoAttr)>>
  \o Concat([i \in 1..d.at |-> BlockEvents(d.blocks[i])], 1)
  \o FaultEvents(d.fault)
  \o Concat([i \in 1..(Len(d.blocks) - d.at) |-> BlockEvents(d.blocks[d.at + i])], 1)
  \o <<EvEnd("metadata")>>

\* A downloaded file: "plain" text, a "gzip" stream of text, or "junk"
\* (bytes that are neither).
PlainFile(evs) == [fmt |-> "plain", events |-> evs]
GzipFile(evs) == [fmt |-> "gzip", events |-> evs]
JunkFile == [fmt |-> "junk", events |-> << >>]

NoFile == [fmt |-> "none", events |-> << >>]

\* what the server of the running program answers with for the index document
IndexBodies ==
  {PlainFile(RepomdEvents(ens)) :
     ens \in SeqsUpTo({en \in Entries : en.type \in {"primary", "other"}}, 1)}
  \cup {JunkFile}

\* ... and for a primary listing
PrimaryBodies ==
  {GzipFile(PrimaryEvents(d)) :
     d \in {x \in PrimaryDocs(1) :
              \A i \in 1..Len(x.blocks) : x.blocks[i] \in NameOnlyBlocks}}
  \cup {JunkFile}

(***************************************************************************)
(* The program state.                                                      *)
(***************************************************************************)
VARIABLES
  config,        \* Config.repositories: name -> enabled
  fsDirs,        \* the directories under cache_dir: <<repo>>, <<repo, "repodata">>
  repositories,  \* RepositoryManager.repositories: name -> package set
  pc,            \* where the process is
  result,        \* what load_repositories / update returned: "none", "ok", "err"
  todo,          \* the configuration entries the for loop has not visited
  cur,           \* the name of the Repository being loaded
  packages,      \* its package set (Repository.packages)
  cand,          \* index into metadata_paths of the candidate being tried
  body,          \* the content of the file downloaded last
  href,          \* primary_location
  tryResult,     \* what try_download_metadata returned: "none", "ok", "err"
  log,           \* downloads and parses of the load_metadata call under way
  doc,           \* input of a parser run on its own
  out,           \* its result
  fresh,         \* history: the aggregate load_repositories builds from an empty one
  before,        \* history: the repositories loaded when update was last called
  query,         \* the argument of the last search_packages / find_package
  results,       \* what search_packages returned: a sequence of [repo, pkg]
  found,         \* what find_package returned: << >> or <<[repo, pkg]>>
  installed,     \* PackageDatabase.installed: key -> record
  dbFile,        \* the store file: NoDbFile or the map it holds
  dbRes,         \* what the last PackageDatabase operation returned
  scan           \* parse_primary_xml run step by step: its locals and the reader

histVars == <<fresh, before>>
cmdVars == <<query, results, found>>
dbVars == <<installed, dbFile, dbRes>>
progVars == <<config, fsDirs, repositories, pc, result, todo, cur, packages, cand,
              body, href, tryResult, log, histVars, cmdVars, dbVars, scan>>
vars == <<config, fsDirs, repositories, pc, result, todo, cur, packages, cand,
          body, href, tryResult, log, doc, out, histVars, cmdVars, dbVars, scan>>

\* parse_primary_xml is not running
NoScan == [pos |-> 0]

\* the store file is not there
NoDbFile == [there |-> FALSE]

RepoSet == {RepoNames[i] : i \in 1..Len(RepoNames)}

\* metadata_paths, in the order of the for loop
MetadataPaths ==
  <<"repodata/repomd.xml", "repodata/primary.xml.gz", "repodata/primary.sqlite.gz">>

\* the directory a cache file of repository r lies in (PathBuf::join, parent)
ParentDir(r, rel) ==
  IF rel \in {"repodata/repomd.xml", "repodata/primary.xml.gz", "repodata/primary.sqlite.gz"}
  THEN <<r, "repodata">>
  ELSE <<r>>

\* download_file: Ok iff the response is 2xx and fs::write succeeds; fs::write
\* creates the file, never a directory
DownloadOk(dirs, r, status, local) == status = "2xx" /\ ParentDir(r, local) \in dirs

\* the path the file located through the index is written at
PrimaryPath == "primary.xml.gz"

\* a loop that skips nothing
SkippedNever(cfg, name) == FALSE

\* load_repositories skips an entry whose enabled flag is off
Skipped(cfg, name) == ~cfg[name]

\* log entries: a download_file call (cand: the index of the candidate, 0 for
\* the file located through the index) and a parse_primary_xml call
GetEntry(c, rel, local, status, ok) ==
  [op |-> "get", cand |-> c, rel |-> rel, local |-> local, status |-> status, ok |-> ok]
ParseEntry(c, ret) ==
  [op |-> "parse", cand |-> c, rel |-> "", local |-> "", status |-> ret, ok |-> ret = "ok"]

\* the cache directories before the program runs: a repository's directory
\* may be there from an earlier run, with or without a repodata directory
DirStates ==
  { ds \in SUBSET ({<<r>> : r \in RepoSet} \cup {<<r, "repodata">> : r \in RepoSet}) :
      \A r \in RepoSet : <<r, "repodata">> \in ds => <<r>> \in ds }

\* RepositoryManager::new, before main calls load_repositories
Init ==
  /\ config \in [RepoSet -> BOOLEAN]
  /\ fsDirs \in DirStates
  /\ repositories = EmptyMap
  /\ pc = "main"
  /\ result = "none"
  /\ todo = {}
  /\ cur = ""
  /\ packages = EmptyMap
  /\ cand = 0
  /\ body = NoFile
  /\ href = ""
  /\ tryResult = "none"
  /\ log = << >>
  /\ doc = << >>
  /\ out = << >>
  /\ fresh = EmptyMap
  /\ before = {}
  /\ query = ""
  /\ results = << >>
  /\ found = << >>
  /\ installed = EmptyMap
  /\ dbFile = NoDbFile
  /\ dbRes = "none"
  /\ scan = NoScan

(***************************************************************************)
(* repo_manager.rs: load_repositories and update.                          *)
(***************************************************************************)
\* main calls load_repositories on the new manager
LoadRepositories ==
  /\ pc = "main"
  /\ pc' = "loop"
  /\ todo' = DOMAIN config
  /\ UNCHANGED <<config, fsDirs, repositories, result, cur, packages, cand, body, href,
                 tryResult, log, doc, out, histVars, cmdVars, dbVars, scan>>

\* an update that keeps the aggregate it finds
ClearKeeps(repos) == repos

\* self.repositories.clear()
Clear(repos) == EmptyMap

\* update: clear the aggregate and run load_repositories again
Update ==
  /\ pc = "idle"
  /\ repositories' = Clear(repositories)
  /\ fresh' = EmptyMap
  /\ before' = DOMAIN repositories
  /\ result' = "none"
  /\ pc' = "loop"
  /\ todo' = DOMAIN config
  /\ UNCHANGED <<config, fsDirs, cur, packages, cand, body, href, tryResult, log, doc, out,
                 cmdVars, dbVars, scan>>

\* the for loop reaches a disabled entry: continue
SkipDisabled ==
  /\ pc = "loop"
  /\ \E name \in todo :
       /\ Skipped(config, name)
       /\ todo' = todo \ {name}
  /\ UNCHANGED <<config, fsDirs, repositories, pc, result, cur, packages, cand, body, href,
                 tryResult, log, doc, out, histVars, cmdVars, dbVars, scan>>

\* the for loop reaches an enabled entry: Repo::new, and load_metadata up to
\* the call of try_download_metadata (create_dir_all succeeded)
BeginLoad ==
  /\ pc = "loop"
  /\ \E name \in todo :
       /\ ~Skipped(config, name)
       /\ cur' = name
       /\ fsDirs' = fsDirs \cup {<<name>>}
  /\ packages' = EmptyMap
  /\ cand' = 1
  /\ pc' = "cascade"
  /\ UNCHANGED <<config, repositories, result, todo, body, href, tryResult, log, doc,
                 out, histVars, cmdVars, dbVars, scan>>

\* create_dir_all fails (the directory is not there and cannot be made):
\* load_metadata returns the error and load_repositories returns it too
MkdirFails ==
  /\ pc = "loop"
  /\ \E name \in todo :
       /\ ~Skipped(config, name)
       /\ <<name>> \notin fsDirs
       /\ cur' = name
  /\ packages' = EmptyMap
  /\ result' = "err"
  /\ pc' = "failed"
  /\ UNCHANGED <<config, fsDirs, repositories, todo, cand, body, href, tryResult, log,
                 doc, out, histVars, cmdVars, dbVars, scan>>

\* the for loop ends: load_repositories returns Ok
LoopDone ==
  /\ pc = "loop"
  /\ todo = {}
  /\ result' = "ok"
  /\ pc' = "idle"
  /\ UNCHANGED <<config, fsDirs, repositories, todo, cur, packages, cand, body, href,
                 tryResult, log, doc, out, histVars, cmdVars, dbVars, scan>>

(***************************************************************************)
(* repo.rs: try_download_metadata and load_metadata.                       *)
(***************************************************************************)
\* metadata_path.ends_with(..) on the three candidates
EndsWithPrimaryXmlGz(rel) == rel = "repodata/primary.xml.gz"
EndsWithRepomdXml(rel) == rel = "repodata/repomd.xml"

\* what a server can answer with at a candidate's URL
BodiesFor(rel) ==
  IF EndsWithRepomdXml(rel) THEN IndexBodies
  ELSE IF EndsWithPrimaryXmlGz(rel) THEN PrimaryBodies
  ELSE {JunkFile}

\* where try_download_metadata goes after download_file on a candidate
AfterDownload(ok, rel) ==
  IF ok /\ EndsWithPrimaryXmlGz(rel) THEN "parse"
  ELSE IF ok /\ EndsWithRepomdXml(rel) THEN "locate"
  ELSE "cascade"

\* one iteration of the for loop: download_file on the candidate
DownloadCandidate ==
  /\ pc = "cascade"
  /\ cand <= Len(MetadataPaths)
  /\ \E status \in {"2xx", "fail"} :
       LET rel == MetadataPaths[cand]
           ok == DownloadOk(fsDirs, cur, status, rel)
           next == AfterDownload(ok, rel) IN
       /\ log' = Append(log, GetEntry(cand, rel, rel, status, ok))
       /\ pc' = next
       /\ cand' = IF next = "cascade" THEN cand + 1 ELSE cand
       /\ IF next = "cascade" THEN body' = NoFile ELSE body' \in BodiesFor(rel)
  /\ UNCHANGED <<config, fsDirs, repositories, result, todo, cur, packages, href,
                 tryResult, doc, out, histVars, cmdVars, dbVars, scan>>

\* parse_repomd on the downloaded index document
Locate ==
  /\ pc = "locate"
  /\ LET r == ParseRepomd(body) IN
       IF r.ok
       THEN /\ href' = r.href
            /\ pc' = "dlprimary"
            /\ cand' = cand
       ELSE /\ href' = href
            /\ pc' = "cascade"
            /\ cand' = cand + 1
  /\ body' = NoFile
  /\ UNCHANGED <<config, fsDirs, repositories, result, todo, cur, packages, tryResult, log,
                 doc, out, histVars, cmdVars, dbVars, scan>>

\* download_file on the located primary listing
DownloadPrimary ==
  /\ pc = "dlprimary"
  /\ \E status \in {"2xx", "fail"} :
       LET ok == DownloadOk(fsDirs, cur, status, PrimaryPath) IN
       /\ log' = Append(log, GetEntry(0, href, PrimaryPath, status, ok))
       /\ IF ok
          THEN /\ pc' = "parse"
               /\ cand' = cand
               /\ body' \in PrimaryBodies
          ELSE /\ pc' = "cascade"
               /\ cand' = cand + 1
               /\ body' = NoFile
  /\ UNCHANGED <<config, fsDirs, repositories, result, todo, cur, packages, href,
                 tryResult, doc, out, histVars, cmdVars, dbVars, scan>>

\* a cascade that goes on to the next candidate after a parse, whatever it returned
AfterParseGoesOn(ret) ==
  CASE ret = "panic" -> "aborted"
    [] OTHER -> "cascade"

\* `return self.parse_primary_xml(..)`: where the result of the parse leads
AfterParse(ret) ==
  CASE ret = "ok" -> "loaded"
    [] ret = "err" -> "fallback"
    [] OTHER -> "aborted"

\* parse_primary_xml on the downloaded primary listing
Parse ==
  /\ pc = "parse"
  /\ LET r == ParsePrimaryXml(packages, body, cur)
         next == AfterParse(r.ret) IN
       /\ packages' = r.pkgs
       /\ log' = Append(log, ParseEntry(cand, r.ret))
       /\ pc' = next
       /\ cand' = IF next = "cascade" THEN cand + 1 ELSE cand
       /\ tryResult' = CASE next = "loaded" -> "ok"
                         [] next = "fallback" -> "err"
                         [] OTHER -> tryResult
  /\ body' = NoFile
  /\ UNCHANGED <<config, fsDirs, repositories, result, todo, cur, href, doc, out,
                 histVars, cmdVars, dbVars, scan>>

\* the for loop is over: bail!
CascadeEnd ==
  /\ pc = "cascade"
  /\ cand > Len(MetadataPaths)
  /\ tryResult' = "err"
  /\ pc' = "fallback"
  /\ UNCHANGED <<config, fsDirs, repositories, result, todo, cur, packages, cand, body,
                 href, log, doc, out, histVars, cmdVars, dbVars, scan>>

\* load_metadata on Err of try_download_metadata: load_mock_data
Fallback ==
  /\ pc = "fallback"
  /\ packages' = LoadMockData(packages)
  /\ pc' = "loaded"
  /\ UNCHANGED <<config, fsDirs, repositories, result, todo, cur, cand, body, href,
                 tryResult, log, doc, out, histVars, cmdVars, dbVars, scan>>

\* load_metadata returned Ok: repositories.insert, and the locals go
Insert ==
  /\ pc = "loaded"
  /\ repositories' = Put(repositories, cur, packages)
  /\ fresh' = Put(fresh, cur, packages)
  /\ todo' = todo \ {cur}
  /\ pc' = "loop"
  /\ cur' = ""
  /\ packages' = EmptyMap
  /\ cand' = 0
  /\ href' = ""
  /\ tryResult' = "none"
  /\ log' = << >>
  /\ UNCHANGED <<config, fsDirs, result, body, doc, out, before, cmdVars, dbVars, scan>>

(***************************************************************************)
(* repo_manager.rs: find_package, on the loaded aggregate.                 *)
(***************************************************************************)
\* the orders in which a HashMap can iterate over the keys S
Orders(S) ==
  {o \in [1..Cardinality(S) -> S] : \A i, j \in DOMAIN o : o[i] = o[j] => i = j}

\* Repository::find_package: self.packages.get(name)
RepoFindPackage(pkgs, n) == IF n \in DOMAIN pkgs THEN <<pkgs[n]>> ELSE << >>

\* a scan that asks the first repository only
FindPackageFirstOnly(repos, order, n, i) ==
  IF i > Len(order) \/ RepoFindPackage(repos[order[i]], n) = << >> THEN << >>
  ELSE <<[repo |-> order[i], pkg |-> RepoFindPackage(repos[order[i]], n)[1]]>>

RECURSIVE FindPackage(_, _, _, _)
\* RepositoryManager::find_package: the first repository, from the i-th of
\* the iteration order on, that has the name
FindPackage(repos, order, n, i) ==
  IF i > Len(order) THEN << >>
  ELSE IF RepoFindPackage(repos[order[i]], n) # << >>
       THEN <<[repo |-> order[i], pkg |-> RepoFindPackage(repos[order[i]], n)[1]]>>
       ELSE FindPackage(repos, order, n, i + 1)

\* the names main asks for
FindNames == {"vim", "zsh", "git", "emacs", "unknown", ""}

\* main, Info or Install: find_package(n) on the loaded aggregate
Find ==
  /\ pc = "idle"
  /\ \E n \in FindNames, order \in Orders(DOMAIN repositories) :
       /\ query' = n
       /\ found' = FindPackage(repositories, order, n, 1)
  /\ pc' = "found"
  /\ UNCHANGED <<config, fsDirs, repositories, result, todo, cur, packages, cand, body,
                 href, tryResult, log, doc, out, histVars, results, dbVars, scan>>

Next ==
  \/ LoadRepositories
  \/ Update
  \/ SkipDisabled
  \/ BeginLoad
  \/ MkdirFails
  \/ LoopDone
  \/ DownloadCandidate
  \/ Locate
  \/ DownloadPrimary
  \/ Parse
  \/ CascadeEnd
  \/ Fallback
  \/ Insert
  \/ Find

Spec == Init /\ [][Next]_vars

(***************************************************************************)
(* The two parsers run on their own, on every document up to the bounds.   *)
(***************************************************************************)
\* the program part, at rest
ProgramAtRest ==
  /\ config = [r \in RepoSet |-> TRUE]
  /\ fsDirs = {}
  /\ repositories = EmptyMap
  /\ pc = "parser"
  /\ result = "none"
  /\ todo = {}
  /\ cur = RepoNames[1]
  /\ packages = EmptyMap
  /\ cand = 0
  /\ body = NoFile
  /\ href = ""
  /\ tryResult = "none"
  /\ log = << >>
  /\ fresh = EmptyMap
  /\ before = {}
  /\ query = ""
  /\ results = << >>
  /\ found = << >>
  /\ installed = EmptyMap
  /\ dbFile = NoDbFile
  /\ dbRes = "none"
  /\ scan = NoScan

InitLocator ==
  /\ ProgramAtRest
  /\ doc \in SeqsUpTo(Entries, MaxEntries)
  /\ out = << >>

\* parse_repomd on the index document with the entries doc
RunParseRepomd ==
  /\ out = << >>
  /\ out' = <<ParseRepomd(PlainFile(RepomdEvents(doc)))>>
  /\ UNCHANGED <<progVars, doc>>

SpecLocator == InitLocator /\ [][RunParseRepomd]_vars

InitParser ==
  /\ ProgramAtRest
  /\ doc \in PrimaryDocs(MaxBlocks)
  /\ out = << >>

\* parse_primary_xml on the primary document doc, into an empty package set
RunParsePrimaryXml ==
  /\ out = << >>
  /\ out' = <<ParsePrimaryXml(EmptyMap, GzipFile(PrimaryEvents(doc)), cur)>>
  /\ UNCHANGED <<progVars, doc>>

SpecParser == InitParser /\ [][RunParsePrimaryXml]_vars

\* A <package> block with every leaf element the parser reads, and a name the
\* parser accepts.
FieldBlocks ==
  [name : {"vim", "zsh"}, arch : {Absent, "noarch"},
   version : {Absent, "1.0-2", ""}, summary : {Absent, "editor"},
   description : {Absent, "a text editor"}, archFirst : {FALSE}]

FieldBlockEvents(b) ==
  <<EvStart("package", NoAttr, NoAttr)>>
  \o (IF b.archFirst THEN Leaf("arch", b.arch) \o Leaf("name", b.name)
      ELSE Leaf("name", b.name) \o Leaf("arch", b.arch))
  \o Leaf("version", b.version)
  \o Leaf("summary", b.summary)
  \o Leaf("description", b.description)
  \o <<EvEnd("package")>>

\* the primary documents of such blocks, without a fault
FieldDocs(n) == [blocks : SeqsUpTo(FieldBlocks, n), fault : {"none"}, at : {0}]

\* the events of <metadata> blocks </metadata>
FieldEvents(d) ==
  <<EvStart("metadata", NoAttr, NoAttr)>>
  \o Concat([i \in 1..Len(d.blocks) |-> FieldBlockEvents(d.blocks[i])], 1)
  \o <<EvEnd("metadata")>>

InitFields ==
  /\ ProgramAtRest
  /\ doc \in FieldDocs(MaxBlocks)
  /\ out = << >>

\* parse_primary_xml on the primary document doc, into an empty package set
RunParseFields ==
  /\ out = << >>
  /\ out' = <<ParsePrimaryXml(EmptyMap, GzipFile(FieldEvents(doc)), cur)>>
  /\ UNCHANGED <<progVars, doc>>

SpecFields == InitFields /\ [][RunParseFields]_vars

(***************************************************************************)
(* repo.rs and repo_manager.rs: search, on the aggregates a load leaves.   *)
(***************************************************************************)
UpperLetters == "ABCDEFGHIJKLMNOPQRSTUVWXYZ"
LowerLetters == "abcdefghijklmnopqrstuvwxyz"

\* the characters of the package names, in the order of their bytes
ByteOrder == "-.0123456789ABCDEFGHIJKLMNOPQRSTUVWXYZ_abcdefghijklmnopqrstuvwxyz"

CharAt(s, i) == SubSeq(s, i, i)

\* the lower-case letter of every upper-case letter
LowerMap ==
  [c \in {CharAt(UpperLetters, i) : i \in 1..Len(UpperLetters)} |->
     CharAt(LowerLetters, CHOOSE i \in 1..Len(UpperLetters) : CharAt(UpperLetters, i) = c)]

\* char::to_lowercase on one character
LowerChar(c) == IF c \in DOMAIN LowerMap THEN LowerMap[c] ELSE c

RECURSIVE ToLowercase(_)
\* str::to_lowercase
ToLowercase(s) ==
  IF s = "" THEN "" ELSE LowerChar(CharAt(s, 1)) \o ToLowercase(SubSeq(s, 2, Len(s)))

\* str::contains: the needle is a substring of the haystack
Contains(hay, needle) ==
  \E i \in 1..(Len(hay) - Len(needle) + 1) : SubSeq(hay, i, i + Len(needle) - 1) = needle

\* the position of a character in the order of the bytes
Ord ==
  [c \in {CharAt(ByteOrder, i) : i \in 1..Len(ByteOrder)} |->
     CHOOSE i \in 1..Len(ByteOrder) : CharAt(ByteOrder, i) = c]

RECURSIVE StrLess(_, _)
\* a < b in the order of String::cmp
StrLess(a, b) ==
  IF b = "" THEN FALSE
  ELSE IF a = "" THEN TRUE
  ELSE IF CharAt(a, 1) # CharAt(b, 1) THEN Ord[CharAt(a, 1)] < Ord[CharAt(b, 1)]
  ELSE StrLess(SubSeq(a, 2, Len(a)), SubSeq(b, 2, Len(b)))

\* the filter closure of Repository::search
Matches(pkg, query_lower) ==
  \/ Contains(ToLowercase(pkg.name.name), query_lower)
  \/ Contains(ToLowercase(pkg.description), query_lower)
  \/ Contains(ToLowercase(pkg.summary), query_lower)

\* a search that compares with the query as typed
RepoSearchAsTyped(pkgs, q) == {k \in DOMAIN pkgs : Matches(pkgs[k], q)}

\* Repository::search: the keys of the records the filter keeps
RepoSearch(pkgs, q) == {k \in DOMAIN pkgs : Matches(pkgs[k], ToLowercase(q))}

RECURSIVE KeysInOrder(_, _)
\* an order packages.values() can have: the keys S ascending or descending
KeysInOrder(S, desc) ==
  IF S = {} THEN << >>
  ELSE LET k == CHOOSE x \in S : \A y \in S \ {x} : IF desc THEN StrLess(y, x) ELSE StrLess(x, y)
       IN <<k>> \o KeysInOrder(S \ {k}, desc)

RECURSIVE Collect(_, _, _, _, _)
\* the for loop of search_packages: results.extend(repo.search(query)), from
\* the i-th repository of the iteration order on
Collect(repos, order, q, desc, i) ==
  IF i > Len(order) THEN << >>
  ELSE LET keys == KeysInOrder(RepoSearch(repos[order[i]], q), desc) IN
       [j \in 1..Len(keys) |-> [repo |-> order[i], pkg |-> repos[order[i]][keys[j]]]]
       \o Collect(repos, order, q, desc, i + 1)

RECURSIVE InsertSorted(_, _)
\* x into the sorted sequence, behind every element that is not greater
InsertSorted(sorted, x) ==
  IF sorted = << >> THEN <<x>>
  ELSE IF StrLess(x.pkg.name.name, Head(sorted).pkg.name.name) THEN <<x>> \o sorted
  ELSE <<Head(sorted)>> \o InsertSorted(Tail(sorted), x)

RECURSIVE SortFrom(_, _, _)
SortFrom(sorted, list, i) ==
  IF i > Len(list) THEN sorted ELSE SortFrom(InsertSorted(sorted, list[i]), list, i + 1)

\* a manager that returns the results as collected
SortByNameNot(list) == list

\* results.sort_by(|a, b| a.name.name.cmp(&b.name.name)): a stable sort
SortByName(list) == SortFrom(<< >>, list, 1)

\* RepositoryManager::search_packages
SearchPackages(repos, order, q, desc) == SortByName(Collect(repos, order, q, desc, 1))

\* the queries main passes on
Queries == {"vim", "VIM", "editor", "EDITOR", "zsh", "emacs", "O", ""}

\* the package sets load_metadata can leave in the repository r
LoadedSets(r) ==
  LET parsed == {ParsePrimaryXml(EmptyMap, b, r) : b \in PrimaryBodies} IN
  {x.pkgs : x \in {y \in parsed : y.ret = "ok"}}
  \cup {LoadMockData(x.pkgs) : x \in {y \in parsed : y.ret = "err"}}
  \cup {LoadMockData(EmptyMap)}

\* load_repositories has returned Ok
InitSearch ==
  /\ config \in [RepoSet -> BOOLEAN]
  /\ fsDirs = UNION {{<<r>>, <<r, "repodata">>} : r \in {x \in RepoSet : config[x]}}
  /\ \E agg \in [{r \in RepoSet : config[r]} -> UNION {LoadedSets(r) : r \in RepoSet}] :
       /\ \A r \in DOMAIN agg : agg[r] \in LoadedSets(r)
       /\ repositories = agg
       /\ fresh = agg
  /\ pc = "idle"
  /\ result = "ok"
  /\ todo = {}
  /\ cur = ""
  /\ packages = EmptyMap
  /\ cand = 0
  /\ body = NoFile
  /\ href = ""
  /\ tryResult = "none"
  /\ log = << >>
  /\ doc = << >>
  /\ out = << >>
  /\ before = {}
  /\ query = ""
  /\ results = << >>
  /\ found = << >>
  /\ installed = EmptyMap
  /\ dbFile = NoDbFile
  /\ dbRes = "none"
  /\ scan = NoScan

\* main, Search: search_packages(q) on the loaded aggregate
Search ==
  /\ pc = "idle"
  /\ \E q \in Queries, order \in Orders(DOMAIN repositories), desc \in BOOLEAN :
       /\ query' = q
       /\ results' = SearchPackages(repositories, order, q, desc)
  /\ pc' = "searched"
  /\ UNCHANGED <<config, fsDirs, repositories, result, todo, cur, packages, cand, body,
                 href, tryResult, log, doc, out, histVars, found, dbVars, scan>>

SpecSearch == InitSearch /\ [][Search]_vars

(***************************************************************************)
(* db.rs: the installed-package store.                                     *)
(***************************************************************************)
\* the store file holding the map m, and a store file that is not JSON
DbFileOf(m) == [there |-> TRUE, json |-> <<m>>]
JunkDbFile == [there |-> TRUE, json |-> << >>]

\* the map without the key k
Drop(m, k) == [x \in (DOMAIN m) \ {k} |-> m[x]]

\* a key that is the bare name
PackageKeyBare(pkg) == pkg.name.name

\* format!("{}.{}", package.name.name, package.name.arch)
PackageKey(pkg) == pkg.name.name \o "." \o pkg.name.arch

\* InstalledPackage (the list of files is empty, the time is left out)
InstalledPkg(pkg) == [package |-> pkg, installed_files |-> << >>]

\* records find_package can hand to install_package: two of the mock
\* catalogue and two parsed in the repository fedora
DbPackages ==
  {MockPackages[2], MockPackages[6], OnNameEnd(FreshPackage, "zsh", "fedora").pkg,
   OnNameEnd(FreshPackage, "vim.x86_64", "fedora").pkg}

\* the keys remove_package is called with
DbKeys == {"vim", "vim.x86_64", "git.x86_64", "zsh.fedora", "emacs"}

\* the store after install_package of each record of S
StoreOf(S) == [k \in {PackageKey(p) : p \in S} |->
                 InstalledPkg(CHOOSE p \in S : PackageKey(p) = k)]

\* the store files an earlier run can have left
DbFiles == {NoDbFile, JunkDbFile} \cup {DbFileOf(StoreOf(S)) : S \in SUBSET DbPackages}

\* what an operation of the store returned, and whether it called save
DbResult(op, key, ret, saved) == [op |-> op, key |-> key, ret |-> ret, saved |-> saved]

\* PackageDatabase::new, after load_repositories
InitDb ==
  /\ config = [r \in RepoSet |-> TRUE]
  /\ fsDirs = {}
  /\ repositories = EmptyMap
  /\ fresh = EmptyMap
  /\ pc = "dbnew"
  /\ result = "ok"
  /\ todo = {}
  /\ cur = ""
  /\ packages = EmptyMap
  /\ cand = 0
  /\ body = NoFile
  /\ href = ""
  /\ tryResult = "none"
  /\ log = << >>
  /\ doc = << >>
  /\ out = << >>
  /\ before = {}
  /\ query = ""
  /\ results = << >>
  /\ found = << >>
  /\ installed = EmptyMap
  /\ dbFile \in DbFiles
  /\ dbRes = DbResult("new", "", "ok", FALSE)
  /\ scan = NoScan

\* the rest of the state, which the store does not touch
restVars == <<config, fsDirs, repositories, result, todo, cur, packages, cand, body, href,
              tryResult, log, doc, out, histVars, cmdVars, scan>>

\* load: Ok and nothing read when the file is not there; Err when it is not
\* JSON; else the map of the file
DbLoad ==
  /\ pc = "dbnew"
  /\ IF ~dbFile.there
     THEN /\ installed' = installed
          /\ dbRes' = DbResult("load", "", "ok", FALSE)
          /\ pc' = "dbready"
     ELSE IF dbFile.json = << >>
     THEN /\ installed' = installed
          /\ dbRes' = DbResult("load", "", "err", FALSE)
          /\ pc' = "dbfailed"
     ELSE /\ installed' = dbFile.json[1]
          /\ dbRes' = DbResult("load", "", "ok", FALSE)
          /\ pc' = "dbready"
  /\ UNCHANGED <<restVars, dbFile>>

\* a save that returns without writing
SaveKeepsFile(inst, file, ok) == file

\* save: create_dir_all and fs::write of the whole map, either can fail
Save(inst, file, ok) == IF ok THEN DbFileOf(inst) ELSE file

\* install_package: insert under "<name>.<arch>", then save()?
InstallPackage(pkg) ==
  /\ pc = "dbready"
  /\ installed' = Put(installed, PackageKey(pkg), InstalledPkg(pkg))
  /\ \E ok \in BOOLEAN :
       /\ dbFile' = Save(installed', dbFile, ok)
       /\ dbRes' = DbResult("install", PackageKey(pkg), IF ok THEN "ok" ELSE "err", TRUE)
  /\ UNCHANGED <<restVars, pc>>

\* a remove that takes every key as present
RemoveHitAlways(inst, k) == TRUE

\* installed_packages.remove(package_name).is_some()
RemoveHit(inst, k) == k \in DOMAIN inst

\* remove_package: remove the key as given; save()? if it was there, else bail
RemovePackage(k) ==
  /\ pc = "dbready"
  /\ installed' = Drop(installed, k)
  /\ IF RemoveHit(installed, k)
     THEN \E ok \in BOOLEAN :
            /\ dbFile' = Save(installed', dbFile, ok)
            /\ dbRes' = DbResult("remove", k, IF ok THEN "ok" ELSE "err", TRUE)
     ELSE /\ dbFile' = dbFile
          /\ dbRes' = DbResult("remove", k, "err", FALSE)
  /\ UNCHANGED <<restVars, pc>>

DbInstall == \E pkg \in DbPackages : InstallPackage(pkg)

DbRemove == \E k \in DbKeys : RemovePackage(k)

\* is_installed: contains_key of the name as given
IsInstalled(inst, n) == n \in DOMAIN inst

\* main, Remove, for one name: remove_package if is_installed, else the
\* message that the package is not installed
CliRemove(n) ==
  IF IsInstalled(installed, n)
  THEN RemovePackage(n)
  ELSE /\ pc = "dbready"
       /\ dbRes' = DbResult("remove", n, "notinstalled", FALSE)
       /\ UNCHANGED <<restVars, pc, installed, dbFile>>

\* the names given to the Remove command: those of the records installed
CliNames == {p.name.name : p \in DbPackages}

DbCliRemove == \E n \in CliNames : CliRemove(n)

\* the process ends and the next one starts: PackageDatabase::new
DbRestart ==
  /\ pc \in {"dbready", "dbfailed"}
  /\ pc' = "dbnew"
  /\ installed' = EmptyMap
  /\ dbRes' = DbResult("new", "", "ok", FALSE)
  /\ UNCHANGED <<restVars, dbFile>>

NextDb ==
  \/ DbLoad
  \/ DbInstall
  \/ DbRemove
  \/ DbCliRemove
  \/ DbRestart

SpecDb == InitDb /\ [][NextDb]_vars

(***************************************************************************)
(* package.rs: Version::parse on its own, on every text up to the bound.   *)
(***************************************************************************)
\* the characters of a version text: digits, the dot and the separator
VersionChars == {"1", "2", ".", "-"}

RECURSIVE TextsUpTo(_)
\* the texts of at most n of these characters
TextsUpTo(n) ==
  IF n = 0 THEN {""}
  ELSE LET shorter == TextsUpTo(n - 1) IN
       shorter \cup {t \o c : t \in {x \in shorter : Len(x) = n - 1}, c \in VersionChars}

InitVersion ==
  /\ ProgramAtRest
  /\ doc \in TextsUpTo(MaxLen)
  /\ out = << >>

\* Version::parse on the text doc
RunVersionParse ==
  /\ out = << >>
  /\ out' = <<VersionParse(doc)>>
  /\ UNCHANGED <<progVars, doc>>

SpecVersion == InitVersion /\ [][RunVersionParse]_vars

(***************************************************************************)
(* repo.rs: the loop of parse_primary_xml, one iteration a step.           *)
(***************************************************************************)
\* the documents scanned: blocks with a <name> element at most, and one
\* optional fault
ScanDocs(n) ==
  [blocks : SeqsUpTo(NameOnlyBlocks, n), fault : {"none"}, at : {0}]
  \cup { d \in [blocks : SeqsUpTo(NameOnlyBlocks, n), fault : {"badescape", "mismatch"},
                 at : 0..n] : d.at <= Len(d.blocks) }

InitScan ==
  /\ ProgramAtRest
  /\ doc \in ScanDocs(MaxBlocks)
  /\ out = << >>

\* the file is read and decoded, the reader and the locals are set up
ScanStart ==
  /\ pc = "parser"
  /\ scan = NoScan
  /\ scan' = [pos |-> 1, st |-> [pkgs |-> packages, cur |-> << >>, text |-> "", ret |-> "run"]]
  /\ pc' = "scanning"
  /\ UNCHANGED <<config, fsDirs, repositories, result, todo, cur, packages, cand, body, href,
                 tryResult, log, doc, out, histVars, cmdVars, dbVars>>

\* an Eof arm that does not leave the loop
EofArmGoesOn(st) == st

\* Ok(Event::Eof) => break, and the function returns Ok
EofArm(st) == [st EXCEPT !.ret = "ok"]

\* one iteration of the loop: read_event_into hands out the next event of the
\* document, or Eof at its end, and the match arm runs
ScanStep ==
  /\ pc = "scanning"
  /\ LET evs == PrimaryEvents(doc)
         st == IF scan.pos > Len(evs) THEN EofArm(scan.st)
               ELSE PrimaryStep(scan.st, evs[scan.pos], cur) IN
       /\ scan' = [pos |-> IF scan.pos > Len(evs) THEN scan.pos ELSE scan.pos + 1, st |-> st]
       /\ pc' = IF st.ret = "run" THEN "scanning" ELSE "scanned"
       /\ packages' = st.pkgs
  /\ UNCHANGED <<config, fsDirs, repositories, result, todo, cur, cand, body, href,
                 tryResult, log, doc, out, histVars, cmdVars, dbVars>>

NextScan ==
  \/ ScanStart
  \/ ScanStep

\* the loop is sequential code: its next iteration is always taken
SpecScan == InitScan /\ [][NextScan]_vars /\ WF_vars(NextScan)

(***************************************************************************)
(* Properties.                                                             *)
(***************************************************************************)
MockNames == {"nano", "vim", "curl", "rust", "firefox", "git", "python3"}

IsCandidateGet(en) == en.op = "get" /\ en.cand > 0

\* C1: when try_download_metadata has returned an error, the package set
\* load_metadata leaves holds the seven mock packages and no other key.
C1_MockOnlyAfterFailure ==
  (pc = "loaded" /\ tryResult = "err") => DOMAIN packages = MockNames

\* C2: try_download_metadata returns the aggregate failure only after all
\* three candidates were attempted.
C2_FailureAfterAllCandidates ==
  tryResult = "err" =>
    {log[i].rel : i \in {j \in DOMAIN log : IsCandidateGet(log[j])}}
      = {"repodata/repomd.xml", "repodata/primary.xml.gz", "repodata/primary.sqlite.gz"}

\* C3: the candidates are downloaded in the order repomd.xml, primary.xml.gz,
\* primary.sqlite.gz, each at most once; a successful parse ends the run with
\* success, and nothing is downloaded after it.
C3_CascadeOrder ==
  LET gets == SelectSeq(log, IsCandidateGet)
      order == <<"repodata/repomd.xml", "repodata/primary.xml.gz",
                 "repodata/primary.sqlite.gz">> IN
  /\ Len(gets) <= 3
  /\ \A i \in DOMAIN gets : gets[i].rel = order[i]
  /\ \A i \in DOMAIN log :
       (log[i].op = "parse" /\ log[i].ok) =>
         /\ i = Len(log)
         /\ pc = "loaded"
         /\ tryResult = "ok"

\* C3 witness: the index document could not be fetched, the direct primary
\* listing was fetched and parsed, and the run returned success.
C3_Witness ==
  /\ pc = "loaded"
  /\ tryResult = "ok"
  /\ Len(log) = 3
  /\ log[1].op = "get" /\ log[1].cand = 1 /\ ~log[1].ok
  /\ log[2].op = "get" /\ log[2].cand = 2 /\ log[2].ok
  /\ log[3].op = "parse" /\ log[3].ok

\* C4: after load_repositories returned Ok, every repository of the aggregate
\* has a non-empty package set.
C4_NonEmptyAfterLoad ==
  (pc = "idle" /\ result = "ok") =>
    \A r \in DOMAIN repositories : DOMAIN repositories[r] # {}

\* C5: load_repositories and update never end in an error or early: when
\* they end, they returned Ok and every enabled repository is in the aggregate.
C5_LoadNeverFails ==
  (pc \in {"idle", "failed", "aborted"}) =>
    /\ result = "ok"
    /\ \A r \in RepoSet : config[r] => r \in DOMAIN repositories

\* C6: after load_repositories returned Ok the aggregate's keys are the enabled
\* configuration keys; no Repository is ever constructed (and so nothing is
\* downloaded or filled from the mock catalog) for a disabled one.
C6_EnabledOnly ==
  /\ (pc = "idle" /\ result = "ok") =>
       DOMAIN repositories = {r \in RepoSet : config[r]}
  /\ cur # "" => config[cur]
  /\ \A r \in DOMAIN repositories : config[r]

\* C6 witness: a load that returned Ok with one repository disabled and
\* another one loaded.
C6_Witness ==
  /\ pc = "idle"
  /\ result = "ok"
  /\ \E r \in RepoSet : ~config[r]
  /\ \E r \in RepoSet : config[r] /\ r \in DOMAIN repositories

\* C7: every download answered with 2xx succeeds and writes the file at the
\* cache path that mirrors the remote relative path.
C7_DownloadMirrorsPath ==
  \A i \in DOMAIN log :
    (log[i].op = "get" /\ log[i].status = "2xx") =>
      (log[i].ok /\ log[i].local = log[i].rel)

\* the index document has exactly one primary entry, it has a location, and
\* no entry has a malformed type attribute
OnePrimaryWithLocation(ens) ==
  /\ Cardinality({i \in DOMAIN ens : ens[i].type = "primary"}) = 1
  /\ \A i \in DOMAIN ens : ens[i].type # BadAttr
  /\ \A i \in DOMAIN ens : ens[i].type = "primary" => ens[i].form \in {"pair", "empty"}

\* C8: on an index document with one primary entry whose location has href H,
\* parse_repomd returns H, in whichever form the location element is written.
C8_LocatorReturnsPrimaryHref ==
  (out # << >> /\ OnePrimaryWithLocation(doc)) =>
    \A i \in DOMAIN doc :
      doc[i].type = "primary" => out[1] = [ok |-> TRUE, href |-> doc[i].href]

\* C9: on an index document in which no data element has type "primary",
\* parse_repomd returns an error.
C9_NoPrimaryIsError ==
  (out # << >> /\ \A i \in DOMAIN doc : doc[i].type # "primary") => ~out[1].ok

\* C9 witness: a document of two non-primary entries, one of them with a
\* location written as a start/end pair, on which parse_repomd has failed.
C9_Witness ==
  /\ out # << >>
  /\ Len(doc) = 2
  /\ \A i \in DOMAIN doc : doc[i].type # "primary"
  /\ \E i \in DOMAIN doc : doc[i].type = "other" /\ doc[i].form = "pair"
  /\ ~out[1].ok

\* C10: after a successful parse into an empty set, the keys of the package
\* set are the names given by the name elements of the document's blocks.
C10_KeysAreBlockNames ==
  (out # << >> /\ out[1].ret = "ok") =>
    DOMAIN out[1].pkgs
      = {doc.blocks[i].name : i \in {j \in DOMAIN doc.blocks : doc.blocks[j].name # Absent}}

\* the last block of the primary document d with the name k (0: none)
LastBlockNamed(d, k) ==
  LET S == {i \in DOMAIN d.blocks : d.blocks[i].name = k} IN
  IF S = {} THEN 0 ELSE CHOOSE i \in S : \A j \in S : j <= i

\* C17: an href parse_repomd returns is the href of a location nested in a
\* data element whose own type attribute is "primary".
C17_HrefFromPrimaryEntry ==
  (out # << >> /\ out[1].ok) =>
    \E i \in DOMAIN doc :
      /\ doc[i].type = "primary"
      /\ doc[i].form # "none"
      /\ doc[i].href = out[1].href

\* C18: a record inserted for a block with an arch element has the text of
\* that element as its architecture, whether arch comes before or after name.
C18_ArchFromArchElement ==
  (out # << >> /\ out[1].ret = "ok") =>
    \A k \in DOMAIN out[1].pkgs :
      LET b == doc.blocks[LastBlockNamed(doc, k)] IN
      b.arch # Absent => out[1].pkgs[k].name.arch = b.arch

\* C19: a name element with empty text does not abort the parse: the parse of
\* a document without a stream fault ends Ok with every block of another name
\* inserted.
C19_EmptyNameDoesNotAbort ==
  (out # << >> /\ doc.fault = "none") =>
    /\ out[1].ret = "ok"
    /\ \A i \in DOMAIN doc.blocks :
         doc.blocks[i].name \notin {Absent, "", "unknown"} =>
           doc.blocks[i].name \in DOMAIN out[1].pkgs

\* the text a leaf element leaves in its field ("" when there is no element)
FieldText(t) == IF t = Absent THEN "" ELSE t

\* C11: of several blocks with the same name the package set holds one
\* record, the one of the last such block: its summary and description are
\* that block's texts, and the whole record is the one the parser makes of
\* that block alone (no field of an earlier block survives).
C11_LastBlockWins ==
  out # << >> =>
    /\ out[1].ret = "ok"
    /\ DOMAIN out[1].pkgs = {doc.blocks[i].name : i \in DOMAIN doc.blocks}
    /\ \A k \in DOMAIN out[1].pkgs :
         LET b == doc.blocks[LastBlockNamed(doc, k)]
             alone == [blocks |-> <<b>>, fault |-> "none", at |-> 0] IN
         /\ out[1].pkgs[k].summary = FieldText(b.summary)
         /\ out[1].pkgs[k].description = FieldText(b.description)
         /\ out[1].pkgs[k]
              = ParsePrimaryXml(EmptyMap, GzipFile(FieldEvents(alone)), cur).pkgs[k]

\* C11 witness: two blocks named vim, the first with arch, version, summary
\* and description, the second with none of them, parsed into one record
\* that has none of the first block's fields.
C11_Witness ==
  /\ out # << >>
  /\ Len(doc.blocks) = 2
  /\ doc.blocks[1] = [name |-> "vim", arch |-> "noarch", version |-> "1.0-2",
                      summary |-> "editor", description |-> "a text editor",
                      archFirst |-> FALSE]
  /\ doc.blocks[2] = [name |-> "vim", arch |-> Absent, version |-> Absent,
                      summary |-> Absent, description |-> Absent, archFirst |-> FALSE]
  /\ DOMAIN out[1].pkgs = {"vim"}
  /\ out[1].pkgs["vim"].summary = ""
  /\ out[1].pkgs["vim"].version.version = "0"
  /\ out[1].pkgs["vim"].name.arch # "noarch"

\* C20: every Version of a package in a package set has a non-empty version
\* string.
C20_VersionNonEmpty ==
  out # << >> => \A k \in DOMAIN out[1].pkgs : out[1].pkgs[k].version.version # ""

\* C16: all along a run of update, and when it has returned Ok, the aggregate
\* is the one load_repositories builds from an empty aggregate with the same
\* downloads: it holds the enabled repositories the run has loaded, each with
\* the package set built in this run, and nothing else.
C16_UpdateIsFreshLoad ==
  /\ repositories = fresh
  /\ pc \notin {"main", "idle", "failed", "aborted", "parser"} =>
       DOMAIN repositories \cap todo = {}
  /\ (pc = "idle" /\ result = "ok") =>
       DOMAIN repositories = {r \in DOMAIN config : config[r]}

\* C16 witness: update was called with repositories loaded and has returned
\* Ok, and the aggregate holds a package set for each of them again.
C16_Witness ==
  /\ pc = "idle"
  /\ result = "ok"
  /\ before # {}
  /\ DOMAIN repositories = before
  /\ repositories = fresh
  /\ \E r \in before : repositories[r] # EmptyMap

\* C14: find_package(n) returns nothing exactly when no loaded repository
\* has an entry keyed n; a package it returns has the bare name n and is the
\* entry keyed n of a loaded repository.
C14_FindPackage ==
  pc = "found" =>
    /\ found = << >> <=> \A r \in DOMAIN repositories : query \notin DOMAIN repositories[r]
    /\ found # << >> =>
         /\ found[1].pkg.name.name = query
         /\ found[1].repo \in DOMAIN repositories
         /\ query \in DOMAIN repositories[found[1].repo]
         /\ repositories[found[1].repo][query] = found[1].pkg

\* C14 witness: find_package returned a package that one loaded repository
\* has and another has not.
C14_Witness ==
  /\ pc = "found"
  /\ found # << >>
  /\ found[1].pkg.name.name = query
  /\ \E r \in DOMAIN repositories : query \notin DOMAIN repositories[r]

\* the lower-cased query q is a substring of the lower-cased name, summary
\* or description of the record
FieldMatches(pkg, q) ==
  \E f \in {pkg.name.name, pkg.summary, pkg.description} :
    Contains(ToLowercase(f), ToLowercase(q))

\* the (repository, record) pairs of the aggregate that match the query q
MatchingPairs(q) ==
  UNION {{[repo |-> r, pkg |-> repositories[r][k]] :
            k \in {x \in DOMAIN repositories[r] : FieldMatches(repositories[r][x], q)}} :
         r \in DOMAIN repositories}

ResultSet(list) == {list[i] : i \in DOMAIN list}

\* C12: search_packages returns a record exactly when the lower-cased query
\* is a substring of its lower-cased name, summary or description, and a query
\* that differs from q only in letter case returns the same set of records.
C12_CaseInsensitive ==
  pc = "searched" =>
    /\ ResultSet(results) = MatchingPairs(query)
    /\ \A q2 \in Queries :
         (q2 # query /\ ToLowercase(q2) = ToLowercase(query)) =>
           \A order \in Orders(DOMAIN repositories), desc \in BOOLEAN :
             ResultSet(SearchPackages(repositories, order, q2, desc)) = ResultSet(results)

\* C12 witness: the query EDITOR returned nano, whose description holds
\* "editor", and the query is not the lower-case one.
C12_Witness ==
  /\ pc = "searched"
  /\ query = "EDITOR"
  /\ ToLowercase(query) = "editor"
  /\ \E i \in DOMAIN results : results[i].pkg.name.name = "nano"

\* C13: search_packages returns one result per (repository, matching record)
\* pair, so a name matching in k repositories is there k times, and the
\* sequence ascends by bare package name.
C13_OnePerPairSorted ==
  pc = "searched" =>
    /\ Len(results) = Cardinality(MatchingPairs(query))
    /\ \A p \in MatchingPairs(query) :
         Cardinality({i \in DOMAIN results : results[i] = p}) = 1
    /\ \A i, j \in DOMAIN results :
         i < j => ~StrLess(results[j].pkg.name.name, results[i].pkg.name.name)

\* C13 witness: a name found in two repositories is in the results twice,
\* next to a result with another name.
C13_Witness ==
  /\ pc = "searched"
  /\ \E i, j \in DOMAIN results :
       /\ i < j
       /\ results[i].pkg.name.name = results[j].pkg.name.name
       /\ results[i].repo # results[j].repo
  /\ \E i, j \in DOMAIN results : results[i].pkg.name.name # results[j].pkg.name.name

\* C15: remove_package(k) for a key k that is not in the store returns an
\* error, calls no save, and leaves the map in memory and the store file as
\* they were.
C15_RemoveAbsentKey ==
  [][\A k \in DbKeys :
       (RemovePackage(k) /\ k \notin DOMAIN installed) =>
         /\ dbRes' = DbResult("remove", k, "err", FALSE)
         /\ installed' = installed
         /\ dbFile' = dbFile]_vars

\* C15 witness: remove_package has returned an error for a key that is not in
\* the store, which holds other entries, in memory and in the file.
C15_Witness ==
  /\ pc = "dbready"
  /\ dbRes.op = "remove"
  /\ dbRes.ret = "err"
  /\ ~dbRes.saved
  /\ dbRes.key \notin DOMAIN installed
  /\ installed # EmptyMap
  /\ dbFile = DbFileOf(installed)

\* the position of the first '-' of the text s (0: none)
FirstDash(s) ==
  LET D == {i \in 1..Len(s) : SubSeq(s, i, i) = "-"} IN
  IF D = {} THEN 0 ELSE CHOOSE i \in D : \A j \in D : i <= j

\* C21: Version::parse splits on the first '-' only: version is the text
\* before it, release all of the text after it, and epoch is 0.
C21_SplitOnFirstDash ==
  (out # << >> /\ FirstDash(doc) # 0) =>
    /\ out[1].epoch = 0
    /\ out[1].version = SubSeq(doc, 1, FirstDash(doc) - 1)
    /\ out[1].release = SubSeq(doc, FirstDash(doc) + 1, Len(doc))

\* C22: parse_primary_xml terminates on every document: every iteration of
\* the loop either consumes an event or ends the scan, also when the tokenizer
\* reports a malformed tag, and the scan ends.
C22_ScanTerminates ==
  /\ [][ScanStep => (scan'.pos = scan.pos + 1 \/ pc' = "scanned")]_vars
  /\ <>(pc = "scanned")

\* C22 witness: the scan of a document with a malformed tag before its last
\* block has ended at Eof, with that block's package in the set.
C22_Witness ==
  /\ pc = "scanned"
  /\ doc.fault = "mismatch"
  /\ doc.at < Len(doc.blocks)
  /\ scan.st.ret = "ok"
  /\ scan.pos = Len(PrimaryEvents(doc)) + 1
  /\ packages # EmptyMap

\* every entry of the package set is keyed by its record's bare name, which
\* is neither empty nor the placeholder
KeyedByName(pkgs) ==
  \A k \in DOMAIN pkgs : pkgs[k].name.name = k /\ k \notin {"", "unknown"}

\* C23: in every state of a Repository, while it is loaded and in the
\* aggregate, each entry of the package set is keyed by its own record's bare
\* name, and no key is the empty string or "unknown".
C23_KeyedByName ==
  /\ KeyedByName(packages)
  /\ \A r \in DOMAIN repositories : KeyedByName(repositories[r])

\* C23 witness: a loaded repository holds a parsed package next to the mock
\* catalogue (a parse that failed half-way, then the fallback).
C23_Witness ==
  /\ pc = "idle"
  /\ \E r \in DOMAIN repositories :
       /\ "zsh" \in DOMAIN repositories[r]
       /\ "nano" \in DOMAIN repositories[r]
       /\ KeyedByName(repositories[r])

\* C24 as stated: when the record of the bare name N is in the store, the
\* Remove command for N finds no entry, and the record is still in the store
\* afterwards.
C24_RemoveFindsNoEntry ==
  [][\A p \in DbPackages :
       (CliRemove(p.name.name) /\ PackageKey(p) \in DOMAIN installed) =>
         /\ dbRes'.ret = "notinstalled"
         /\ PackageKey(p) \in DOMAIN installed']_vars

\* C24 amended: when the record of the bare name N is in the store, under
\* "<N>.<arch>", the Remove command for N leaves that record in the store, in
\* memory and in the file; it finds no entry at all unless the key of another
\* installed record is N, and then it is that record it removes.
C24_RemoveKeepsOwnEntry ==
  [][\A p \in DbPackages :
       (CliRemove(p.name.name) /\ PackageKey(p) \in DOMAIN installed) =>
         /\ PackageKey(p) # p.name.name
         /\ PackageKey(p) \in DOMAIN installed'
         /\ installed'[PackageKey(p)] = installed[PackageKey(p)]
         /\ (dbFile.there /\ dbFile.json # << >> /\ PackageKey(p) \in DOMAIN dbFile.json[1]) =>
              PackageKey(p) \in DOMAIN dbFile'.json[1]
         /\ IF p.name.name \in DOMAIN installed
            THEN /\ dbRes'.ret \in {"ok", "err"}
                 /\ installed' = Drop(installed, p.name.name)
            ELSE /\ dbRes'.ret = "notinstalled"
                 /\ installed' = installed
                 /\ dbFile' = dbFile]_vars

\* C24 witness: the Remove command for vim has reported that it is not
\* installed, and the record of vim is in the store, in memory and in the file.
C24_Witness ==
  /\ pc = "dbready"
  /\ dbRes = DbResult("remove", "vim", "notinstalled", FALSE)
  /\ "vim.x86_64" \in DOMAIN installed
  /\ installed["vim.x86_64"].package.name.name = "vim"
  /\ dbFile = DbFileOf(installed)

\* C25: whenever the most recent install_package or remove_package call on
\* the loaded store returned Ok, the store file holds exactly the entries of
\* the map in memory.
C25_FileIsMemoryAfterOk ==
  (pc = "dbready" /\ dbRes.op \in {"install", "remove"} /\ dbRes.ret = "ok") =>
    /\ dbFile.there
    /\ dbFile.json = <<installed>>

\* C25 witness: remove_package has returned Ok and entries are left, in memory
\* and in the file.
C25_Witness ==
  /\ pc = "dbready"
  /\ dbRes.op = "remove"
  /\ dbRes.ret = "ok"
  /\ dbRes.saved
  /\ installed # EmptyMap
  /\ dbFile.json = <<installed>>

====
